---- MODULE Spec2Model ----
(***************************************************************************)
(* Model of the go-mapnik binding (mapnik.go): the layer-activation state  *)
(* machine of Map, the Free methods of Datasource, Layer and Map, the      *)
(* render entry points and Encode, and the error paths of the fallible     *)
(* native calls.  The native engine is reachable only through the C API of *)
(* mapnik_c_api.h; what it answers is drawn nondeterministically.          *)
(***************************************************************************)
EXTENDS Integers, Sequences, FiniteSets, TLC

VARIABLES
  layers,       \* the native map's layers in index order: [name, active]
  layerStatus,  \* Map.layerStatus: [isNil, val]; a Go slice is nil or a sequence
  lastOp,       \* the operation that ran last
  pre,          \* the layers' flags and layerStatus before that operation
  selected,     \* layer names handed to selector.Select by that operation, in order
  written,      \* <<index, value>> of each mapnik_map_layer_set_active call it made
  decided,      \* the Status the selector answered for each of them
  sess,         \* history of the calls made since the last ResetLayers call
  handle,       \* the native handle field of each wrapper (Datasource.ds, Layer.l, Map.m)
  released,     \* per wrapper, the handles passed to the native free function, in order
  made,         \* per wrapper, the handle its constructor got from the engine
  fcall,        \* the fallible operation that ran last and whether its native call failed
  fret,         \* what that operation returned to its caller
  rcall,        \* the last render or encode call: arguments, native calls, result
  width,        \* Map.width
  height,       \* Map.height
  canvas,       \* <<width, height>> of the native map, which the engine renders
  fixMode       \* the native map's aspect fix mode

layerVars  == <<layers, layerStatus, lastOp, pre, selected, written, decided, sess>>
freeVars   == <<handle, released, made, fcall, fret>>
renderVars == <<rcall, width, height, canvas, fixMode>>
vars       == <<layerVars, freeVars, renderVars>>

(* ------------------------------ bounds -------------------------------- *)
MaxLayers == 2      \* most layers a map holds
MaxFrees  == 3      \* most Free calls recorded per wrapper

Names == {"layerA", "layerB"}

(* --------------------------- Status (mapnik.go) ------------------------ *)
Exclude == 0 - 1
Default == 0
Include == 1
StatusValues == {Exclude, Default, Include}     \* what a selector answers

NilSlice == [isNil |-> TRUE, val |-> <<>>]
Slice(s) == [isNil |-> FALSE, val |-> s]

(* len(m.layerStatus): a nil slice has length 0 *)
len(s) == Len(s.val)

(* Map.CountLayers: mapnik_map_layer_count *)
CountLayers(lyrs) == Len(lyrs)

(* Map.currentLayerStatus: make([]bool, n), then one flag per layer index *)
currentLayerStatus(lyrs) ==
  Slice([i \in 1..CountLayers(lyrs) |-> lyrs[i].active])

(* mapnik_map_layer_set_active(m, idx, v); idx is 0-based in the code *)
SetActive(lyrs, idx, v) ==
  [lyrs EXCEPT ![idx + 1] = [@ EXCEPT !.active = v]]

(* storeLayerStatus without its "allready stored" test *)
storeAlways(ls, lyrs) == currentLayerStatus(lyrs)

(* Map.storeLayerStatus *)
storeLayerStatus(ls, lyrs) ==
  IF len(ls) > 0 THEN ls ELSE currentLayerStatus(lyrs)

(* The loop of Map.SelectLayers from index i on: the layers, the names handed
   to the selector and the set_active calls made *)
RECURSIVE SelectLoop(_, _, _, _, _, _)
SelectLoop(i, n, lyrs, sel, names, wr) ==
  IF i >= n THEN [layers |-> lyrs, selected |-> names, written |-> wr]
  ELSE LET layerName == lyrs[i + 1].name
           st == sel[layerName]
       IN  IF st = Include
             THEN SelectLoop(i + 1, n, SetActive(lyrs, i, TRUE), sel,
                             Append(names, layerName), Append(wr, <<i, TRUE>>))
           ELSE IF st = Exclude
             THEN SelectLoop(i + 1, n, SetActive(lyrs, i, FALSE), sel,
                             Append(names, layerName), Append(wr, <<i, FALSE>>))
           ELSE SelectLoop(i + 1, n, lyrs, sel, Append(names, layerName), wr)

(* The loop of Map.resetLayerStatus from index i on *)
RECURSIVE ResetLoop(_, _, _, _, _)
ResetLoop(i, n, lyrs, ls, wr) ==
  IF i >= n THEN [layers |-> lyrs, written |-> wr]
  ELSE ResetLoop(i + 1, n, SetActive(lyrs, i, ls.val[i + 1]), ls,
                 Append(wr, <<i, ls.val[i + 1]>>))

(* resetLayerStatus that restores the flags and keeps the snapshot *)
resetKeepsSnapshot(ls, lyrs) ==
  IF len(ls) = 0 \/ CountLayers(lyrs) > len(ls)
    THEN [layers |-> lyrs, layerStatus |-> ls, written |-> <<>>]
  ELSE LET r == ResetLoop(0, CountLayers(lyrs), lyrs, ls, <<>>)
       IN  [layers |-> r.layers, layerStatus |-> ls, written |-> r.written]

(* resetLayerStatus without its test of the layer count: it restores the
   layers the snapshot covers and writes on past the snapshot's end *)
resetUnguarded(ls, lyrs) ==
  IF len(ls) = 0
    THEN [layers |-> lyrs, layerStatus |-> ls, written |-> <<>>]
  ELSE LET n == CountLayers(lyrs)
           m == IF n > len(ls) THEN len(ls) ELSE n
           r == ResetLoop(0, m, lyrs, ls, <<>>)
       IN  [layers |-> r.layers, layerStatus |-> NilSlice,
            written |-> r.written \o [k \in 1..(n - m) |-> <<m + k - 1, FALSE>>]]

(* resetLayerStatus without its test for an empty snapshot *)
resetWithoutEmptyTest(ls, lyrs) ==
  IF CountLayers(lyrs) > len(ls)
    THEN [layers |-> lyrs, layerStatus |-> ls, written |-> <<>>]
  ELSE LET r == ResetLoop(0, CountLayers(lyrs), lyrs, ls, <<>>)
       IN  [layers |-> r.layers, layerStatus |-> NilSlice, written |-> r.written]

(* Map.resetLayerStatus: layers, layerStatus and the writes made *)
resetLayerStatus(ls, lyrs) ==
  IF len(ls) = 0
    THEN [layers |-> lyrs, layerStatus |-> ls, written |-> <<>>]
  ELSE IF CountLayers(lyrs) > len(ls)
    THEN [layers |-> lyrs, layerStatus |-> ls, written |-> <<>>]
  ELSE LET r == ResetLoop(0, CountLayers(lyrs), lyrs, ls, <<>>)
       IN  [layers |-> r.layers, layerStatus |-> NilSlice, written |-> r.written]

(* --------------------- history of the current session ------------------ *)
(* A session runs from one ResetLayers call (or New) to the next.
   stores:    its store requests (storeLayerStatus, SelectLayers): 0, 1 or 2
              (two or more)
   first:     layerStatus as the first of them left it
   direct:    whether one of them was storeLayerStatus called on its own, in
              this session or in one that left the snapshot now held
   selects:   its SelectLayers calls: 0, 1 or 2 (two or more)
   base:      the layers' flags before the first of them
   count:     CountLayers before the first of them
   moved:     whether CountLayers changed since
   selFlags:  the layers' flags before the latest SelectLayers call
   selStatus: layerStatus before the latest SelectLayers call
   fresh:     whether the operation before this one (ResetLayers aside) was
              SelectLayers
   closed:    whether ResetLayers has just ended the session *)
NoSess == [stores |-> 0, first |-> NilSlice, direct |-> FALSE, selects |-> 0,
           base |-> <<>>, count |-> 0, moved |-> FALSE,
           selFlags |-> <<>>, selStatus |-> NilSlice, fresh |-> FALSE,
           closed |-> FALSE]

Bump(k) == IF k >= 2 THEN 2 ELSE k + 1

Flags(lyrs) == [i \in 1..Len(lyrs) |-> lyrs[i].active]

Cur ==
  IF sess.closed
    THEN [NoSess EXCEPT !.direct = sess.direct /\ len(layerStatus) > 0]
  ELSE sess

SessStore(s, ls2) ==
  [s EXCEPT !.stores = Bump(@), !.first = IF s.stores = 0 THEN ls2 ELSE @,
            !.fresh = FALSE]

SessSelect(s, lyrs, ls) ==
  [s EXCEPT !.selects = Bump(@),
            !.base  = IF s.selects = 0 THEN Flags(lyrs) ELSE @,
            !.count = IF s.selects = 0 THEN Len(lyrs) ELSE @,
            !.selFlags = Flags(lyrs),
            !.selStatus = ls,
            !.fresh = TRUE]

SessGrow(s, lyrs2) ==
  [s EXCEPT !.moved = @ \/ (s.selects > 0 /\ Len(lyrs2) # s.count),
            !.fresh = FALSE]

Pre == [flags |-> Flags(layers), layerStatus |-> layerStatus]

(* ------------------------------ Init ----------------------------------- *)
(* New(): a map of 800x600 with no layers and layerStatus nil *)
InitLayers ==
  /\ layers = <<>>
  /\ layerStatus = NilSlice
  /\ lastOp = "New"
  /\ pre = [flags |-> <<>>, layerStatus |-> NilSlice]
  /\ selected = <<>>
  /\ decided = <<>>
  /\ written = <<>>
  /\ sess = NoSess

(* --------------------- actions of the layer machine -------------------- *)
(* The layers of a style document: none or one, active or not (longer
   documents reach the maps that several loads reach) *)
Docs == {<<>>} \cup {<<l>> : l \in [name : Names, active : BOOLEAN]}

(* Map.Load / Map.LoadString: the engine appends the document's layers and
   answers 0, or fails, leaving the layers as they were *)
Load ==
  \E doc \in Docs, ok \in BOOLEAN :
    /\ Len(layers) + Len(doc) <= MaxLayers
    /\ ok \/ doc = <<>>
    /\ layers' = IF ok THEN layers \o doc ELSE layers
    /\ sess' = SessGrow(Cur, layers')
    /\ lastOp' = "Load"
    /\ pre' = Pre
    /\ selected' = <<>>
    /\ decided' = <<>>
    /\ written' = <<>>
    /\ UNCHANGED layerStatus

(* Map.AddLayer: mapnik_map_add_layer appends the layer, active by default *)
AddLayer ==
  \E nm \in Names :
    /\ Len(layers) < MaxLayers
    /\ layers' = Append(layers, [name |-> nm, active |-> TRUE])
    /\ sess' = SessGrow(Cur, layers')
    /\ lastOp' = "AddLayer"
    /\ pre' = Pre
    /\ selected' = <<>>
    /\ decided' = <<>>
    /\ written' = <<>>
    /\ UNCHANGED layerStatus

(* Map.storeLayerStatus called on its own, as TestLayerStatus does *)
StoreLayerStatus ==
  /\ layerStatus' = storeLayerStatus(layerStatus, layers)
  /\ sess' = [SessStore(Cur, layerStatus') EXCEPT !.direct = TRUE]
  /\ lastOp' = "storeLayerStatus"
  /\ pre' = Pre
  /\ selected' = <<>>
  /\ decided' = <<>>
  /\ written' = <<>>
  /\ UNCHANGED layers

(* Map.SelectLayers(selector) *)
SelectLayers ==
  \E sel \in [Names -> StatusValues] :
    LET r == SelectLoop(0, CountLayers(layers), layers, sel, <<>>, <<>>)
    IN  /\ layerStatus' = storeLayerStatus(layerStatus, layers)
        /\ layers' = r.layers
        /\ selected' = r.selected
        /\ decided' = [i \in 1..Len(r.selected) |-> sel[r.selected[i]]]
        /\ written' = r.written
        /\ sess' = SessSelect(SessStore(Cur, layerStatus'), layers, layerStatus)
        /\ lastOp' = "SelectLayers"
        /\ pre' = Pre

(* Map.ResetLayers *)
ResetLayers ==
  LET r == resetLayerStatus(layerStatus, layers)
  IN  /\ layers' = r.layers
      /\ layerStatus' = r.layerStatus
      /\ written' = r.written
      /\ selected' = <<>>
      /\ decided' = <<>>
      /\ sess' = [Cur EXCEPT !.closed = TRUE]
      /\ lastOp' = "ResetLayers"
      /\ pre' = Pre

NextLayers ==
  \/ Load /\ UNCHANGED <<freeVars, renderVars>>
  \/ AddLayer /\ UNCHANGED <<freeVars, renderVars>>
  \/ StoreLayerStatus /\ UNCHANGED <<freeVars, renderVars>>
  \/ SelectLayers /\ UNCHANGED <<freeVars, renderVars>>
  \/ ResetLayers /\ UNCHANGED <<freeVars, renderVars>>

(* ======================= handles and Free ============================== *)
Wrappers == {"Datasource", "Layer", "Map"}
Handles  == {"nil", "h"}        \* a nil pointer, or the native object

(* Datasource.Free: the handle passed to mapnik_datasource_free and the value
   of ds.ds afterwards *)
DatasourceFree(h) == [passed |-> h, field |-> "nil"]

(* Layer.Free: mapnik_layer_free(l.l); l.l = nil *)
LayerFree(h) == [passed |-> h, field |-> "nil"]

(* Map.Free without m.m = nil *)
MapFreeKeepsHandle(h) == [passed |-> h, field |-> h]

(* Map.Free: mapnik_map_free(m.m); m.m = nil *)
MapFree(h) == [passed |-> h, field |-> "nil"]

NoCall == [op |-> "none", failed |-> FALSE]
NoRet  == [err |-> FALSE, diag |-> "none"]

(* The constructors have run and each wrapper holds its native object *)
InitFree ==
  /\ handle = [w \in Wrappers |-> "h"]
  /\ made = handle
  /\ released = [w \in Wrappers |-> <<>>]
  /\ fcall = NoCall
  /\ fret = NoRet

FreeStep(w, r) ==
  /\ Len(released[w]) < MaxFrees
  /\ released' = [released EXCEPT ![w] = Append(@, r.passed)]
  /\ handle' = [handle EXCEPT ![w] = r.field]
  /\ fcall' = NoCall
  /\ fret' = NoRet
  /\ UNCHANGED made

FreeDatasource == FreeStep("Datasource", DatasourceFree(handle["Datasource"]))
FreeLayer      == FreeStep("Layer", LayerFree(handle["Layer"]))
FreeMap        == FreeStep("Map", MapFree(handle["Map"]))

(* A constructor: the wrapper holds whatever pointer the engine answered and
   no error is returned *)
Construct(w, op) ==
  \E h \in Handles :
    /\ handle' = [handle EXCEPT ![w] = h]
    /\ made' = [made EXCEPT ![w] = h]
    /\ released' = [released EXCEPT ![w] = <<>>]
    /\ fcall' = [op |-> op, failed |-> (h = "nil")]
    /\ fret' = NoRet

(* NewDatasource: return &Datasource{C.mapnik_datasource(p)} *)
NewDatasource == Construct("Datasource", "NewDatasource")
(* NewLayer: return &Layer{C.mapnik_layer(namecs, srscs)} *)
NewLayer == Construct("Layer", "NewLayer")
(* New: m: C.mapnik_map(800, 600) *)
New == Construct("Map", "New")

(* An operation that tests the native status and returns the diagnostic of
   the given channel as an error *)
Checked(op, channel) ==
  \E failed \in BOOLEAN :
    /\ fcall' = [op |-> op, failed |-> failed]
    /\ fret' = IF failed THEN [err |-> TRUE, diag |-> channel] ELSE NoRet
    /\ UNCHANGED <<handle, released, made>>

(* An operation that makes the native call and drops its status *)
Dropped(op) ==
  \E failed \in BOOLEAN :
    /\ fcall' = [op |-> op, failed |-> failed]
    /\ fret' = NoRet
    /\ UNCHANGED <<handle, released, made>>

RegisterDatasources == Checked("RegisterDatasources", "register")
RegisterFonts       == Checked("RegisterFonts", "register")
(* func init(): both errors are dropped *)
PackageInit         == Dropped("init")
MapLoad             == Checked("Load", "map")
LoadString          == Checked("LoadString", "map")
SetSRS              == Dropped("SetSRS")
(* the status of the map call is tested, the text is mapnik_register_last_error *)
SetAspectFixMode    == Checked("SetAspectFixMode", "register")
ZoomAll             == Checked("ZoomAll", "map")
BackgroundColor     == Dropped("BackgroundColor")

NextFree ==
  \/ FreeDatasource /\ UNCHANGED <<layerVars, renderVars>>
  \/ FreeLayer /\ UNCHANGED <<layerVars, renderVars>>
  \/ FreeMap /\ UNCHANGED <<layerVars, renderVars>>
  \/ NewDatasource /\ UNCHANGED <<layerVars, renderVars>>
  \/ NewLayer /\ UNCHANGED <<layerVars, renderVars>>
  \/ New /\ UNCHANGED <<layerVars, renderVars>>
  \/ RegisterDatasources /\ UNCHANGED <<layerVars, renderVars>>
  \/ RegisterFonts /\ UNCHANGED <<layerVars, renderVars>>
  \/ PackageInit /\ UNCHANGED <<layerVars, renderVars>>
  \/ MapLoad /\ UNCHANGED <<layerVars, renderVars>>
  \/ LoadString /\ UNCHANGED <<layerVars, renderVars>>
  \/ SetSRS /\ UNCHANGED <<layerVars, renderVars>>
  \/ SetAspectFixMode /\ UNCHANGED <<layerVars, renderVars>>
  \/ ZoomAll /\ UNCHANGED <<layerVars, renderVars>>
  \/ BackgroundColor /\ UNCHANGED <<layerVars, renderVars>>

(* ======================= render and encode ============================= *)
Formats    == {"", "raw", "png24", "invalidformat"}   \* RenderOpts.Format values tried
Recognised == {"png256", "png24"}                     \* formats the engine's codec knows
Scales       == {0, 5}                                \* RenderOpts.Scale values tried
ScaleFactors == {0, 2}                                \* RenderOpts.ScaleFactor values tried
Sizes        == {<<1, 2>>, <<2, 2>>, <<800, 600>>}    \* sizes Resize is called with
Opts == [Scale : Scales, ScaleFactor : ScaleFactors, Format : Formats]
NoOpts == [Scale |-> 0, ScaleFactor |-> 0, Format |-> ""]

(* One native call: fn, its arguments ("none"/0 where fn has no such one),
   the pixel buffer handed to it (<<>> where it takes none) and whether the
   engine answered a result (a non-null pointer, status 0) *)
Native(fn, scale, sf, fmt, ok) ==
  [fn |-> fn, scale |-> scale, scaleFactor |-> sf, format |-> fmt, raw |-> <<>>,
   ok |-> ok]

(* What a call returns: bytes is "nil", "raw" (the pixel buffer) or "blob"
   (encoded); err is whether the error is non-nil; rect, stride and pixLen
   are Rect.Max, Stride and len(Pix) of the image RenderImage returns and
   image is the width and height of the native image it rendered; panic is a
   call that panicked instead *)
Result(bytes, err) ==
  [bytes |-> bytes, err |-> err, rect |-> <<0, 0>>, stride |-> 0, pixLen |-> 0,
   image |-> <<0, 0>>, panic |-> FALSE]

Panic == [Result("nil", FALSE) EXCEPT !.panic = TRUE]

(* The scale factor handed on as given, without the test for 0 *)
scaleFactorAsGiven(opts) == opts.ScaleFactor

(* scaleFactor := opts.ScaleFactor; if scaleFactor == 0.0 { scaleFactor = 1.0 } *)
scaleFactor(opts) == IF opts.ScaleFactor = 0 THEN 1 ELSE opts.ScaleFactor

(* if opts.Format != "" { C.CString(opts.Format) } else { C.CString("png256") } *)
format(opts) == IF opts.Format # "" THEN opts.Format ELSE "png256"

(* mapnik_image_to_blob answers a blob only for a format the codec knows *)
ToBlob(fmt, ans) == ans /\ fmt \in Recognised

(* Map.Render without its test of the blob: it returns the bytes behind the
   pointer whatever the engine answered *)
RenderUncheckedBlob(opts, imgOk, blobAns) ==
  LET i == Native("mapnik_map_render_to_image", opts.Scale, scaleFactor(opts), "none", imgOk)
      b == Native("mapnik_image_to_blob", 0, 0, format(opts),
                  ToBlob(format(opts), blobAns))
  IN  IF ~imgOk
        THEN [engine |-> <<i>>, ret |-> Result("nil", TRUE), unfreed |-> {}]
      ELSE IF opts.Format = "raw"
        THEN [engine |-> <<i, Native("mapnik_image_to_raw", 0, 0, "none", TRUE)>>,
              ret |-> Result("raw", FALSE), unfreed |-> {}]
      ELSE [engine |-> <<i, b>>, ret |-> Result("blob", FALSE), unfreed |-> {}]

(* Map.Render: imgOk and blobAns are the engine's answers *)
Render(opts, imgOk, blobAns) ==
  LET i == Native("mapnik_map_render_to_image", opts.Scale, scaleFactor(opts), "none", imgOk)
  IN  IF ~imgOk
        THEN [engine |-> <<i>>, ret |-> Result("nil", TRUE), unfreed |-> {}]
      ELSE IF opts.Format = "raw"
        THEN [engine |-> <<i, Native("mapnik_image_to_raw", 0, 0, "none", TRUE)>>,
              ret |-> Result("raw", FALSE), unfreed |-> {}]
      ELSE LET b == Native("mapnik_image_to_blob", 0, 0, format(opts),
                           ToBlob(format(opts), blobAns))
           IN  IF ~ToBlob(format(opts), blobAns)
                 THEN [engine |-> <<i, b>>, ret |-> Result("nil", TRUE),
                       unfreed |-> {"format"}]
               ELSE [engine |-> <<i, b>>, ret |-> Result("blob", FALSE),
                     unfreed |-> {}]

(* Map.RenderImage: w and h are m.width and m.height, c the native canvas;
   mapnik_image_to_raw answers the rendered image's buffer and its size *)
RenderImage(opts, imgOk, w, h, c) ==
  LET i == Native("mapnik_map_render_to_image", opts.Scale, scaleFactor(opts), "none", imgOk)
  IN  IF ~imgOk
        THEN [engine |-> <<i>>, ret |-> Result("nil", TRUE), unfreed |-> {}]
      ELSE [engine |-> <<i, Native("mapnik_image_to_raw", 0, 0, "none", TRUE)>>,
            ret |-> [Result("raw", FALSE) EXCEPT !.rect = <<w, h>>,
                                                  !.stride = w * 4,
                                                  !.pixLen = c[1] * c[2] * 4,
                                                  !.image = c],
            unfreed |-> {}]

(* Map.RenderToFile: fileAns is the engine's answer; it writes a file only in
   a format its codec knows *)
RenderToFile(opts, fileAns) ==
  LET ok == fileAns /\ format(opts) \in Recognised
      f == Native("mapnik_map_render_to_file", opts.Scale, scaleFactor(opts),
                  format(opts), ok)
  IN  [engine |-> <<f>>, ret |-> Result("nil", ~ok), unfreed |-> {}]

Layouts == {"NRGBA", "RGBA", "Gray"}     \* dynamic types of the image.Image given

(* img.Pix of the images given: empty, or the four bytes of one pixel *)
Pixels == {<<>>, <<255, 0, 0, 255>>, <<128, 0, 0, 128>>, <<0, 0, 0, 0>>}

(* Encode: pix is img.Pix, rawOk and blobAns are the engine's answers;
   &img.Pix[0] panics on an empty Pix, and is the buffer handed to the engine
   for both layouts *)
Encode(layout, pix, fmt, rawOk, blobAns) ==
  LET hasPix == pix # <<>>
      r == [Native("mapnik_image_from_raw", 0, 0, "none", rawOk) EXCEPT !.raw = pix]
      b == Native("mapnik_image_to_blob", 0, 0, fmt, ToBlob(fmt, blobAns))
  IN  IF layout \notin {"NRGBA", "RGBA"}
        THEN [engine |-> <<>>, ret |-> Result("nil", TRUE), unfreed |-> {}]
      ELSE IF ~hasPix
        THEN [engine |-> <<>>, ret |-> Panic, unfreed |-> {}]
      ELSE IF ~rawOk
        THEN [engine |-> <<r>>, ret |-> Result("nil", TRUE), unfreed |-> {}]
      ELSE IF ~ToBlob(fmt, blobAns)
        THEN [engine |-> <<r, b>>, ret |-> Result("nil", TRUE),
              unfreed |-> {"cformat"}]
      ELSE [engine |-> <<r, b>>, ret |-> Result("blob", FALSE), unfreed |-> {}]

Call(op, opts, layout, pix, r) ==
  [op |-> op, opts |-> opts, layout |-> layout, pix |-> pix,
   engine |-> r.engine, ret |-> r.ret, unfreed |-> r.unfreed]

NoRender == Call("none", NoOpts, "none", <<>>,
                 [engine |-> <<>>, ret |-> Result("nil", FALSE), unfreed |-> {}])

(* FixMode (mapnik.go) *)
FixModes == {"GrowBBox", "GrowCanvas", "ShrinkBBox", "ShrinkCanvas",
             "AdjustBBoxWidth", "AdjustBBoxHeight", "AdjustCanvasWidth",
             "AdjustCanvasHeight", "Respect"}

Sides == {2, 800}              \* widths and heights the engine settles on

(* The canvases the engine may settle on when it reconciles canvas c with the
   extent under mode f: the canvas modes change the width or the height of
   the map, the other modes leave the map size unchanged *)
FixCanvas(f, c) ==
  IF f = "GrowCanvas"
    THEN {<<w, c[2]>> : w \in {x \in Sides : x >= c[1]}}
           \cup {<<c[1], h>> : h \in {x \in Sides : x >= c[2]}}
  ELSE IF f = "ShrinkCanvas"
    THEN {<<w, c[2]>> : w \in {x \in Sides : x <= c[1]}}
           \cup {<<c[1], h>> : h \in {x \in Sides : x <= c[2]}}
  ELSE IF f = "AdjustCanvasWidth"  THEN {<<w, c[2]>> : w \in Sides}
  ELSE IF f = "AdjustCanvasHeight" THEN {<<c[1], h>> : h \in Sides}
  ELSE {c}

(* New(): mapnik_map(800, 600), width 800, height 600; the engine's default
   aspect fix mode is GrowBBox *)
InitRender ==
  /\ rcall = NoRender
  /\ width = 800
  /\ height = 600
  /\ canvas = <<800, 600>>
  /\ fixMode = "GrowBBox"

Record(c) ==
  /\ rcall' = c
  /\ UNCHANGED <<width, height, canvas, fixMode>>

DoRender ==
  \E opts \in Opts, imgOk \in BOOLEAN, blobAns \in BOOLEAN :
    Record(Call("Render", opts, "none", <<>>, Render(opts, imgOk, blobAns)))

DoRenderImage ==
  \E opts \in Opts, imgOk \in BOOLEAN :
    Record(Call("RenderImage", opts, "none", <<>>,
                RenderImage(opts, imgOk, width, height, canvas)))

DoRenderToFile ==
  \E opts \in Opts, fileAns \in BOOLEAN :
    Record(Call("RenderToFile", opts, "none", <<>>, RenderToFile(opts, fileAns)))

DoEncode ==
  \E layout \in Layouts, pix \in Pixels, fmt \in Formats,
     rawOk \in BOOLEAN, blobAns \in BOOLEAN :
    Record(Call("Encode", [NoOpts EXCEPT !.Format = fmt], layout, pix,
                Encode(layout, pix, fmt, rawOk, blobAns)))

(* Map.Resize: mapnik_map_resize, then m.width and m.height *)
Resize ==
  \E sz \in Sizes :
    /\ canvas' \in FixCanvas(fixMode, sz)
    /\ width' = sz[1]
    /\ height' = sz[2]
    /\ UNCHANGED <<rcall, fixMode>>

(* Map.SetAspectFixMode with a FixMode the engine takes *)
SetAspectFixModeTo ==
  \E f \in FixModes :
    /\ fixMode' = f
    /\ UNCHANGED <<rcall, width, height, canvas>>

(* Map.ZoomAll: the engine zooms, or fails and leaves the map as it was *)
ZoomAllCanvas ==
  \E ok \in BOOLEAN :
    /\ canvas' \in IF ok THEN FixCanvas(fixMode, canvas) ELSE {canvas}
    /\ UNCHANGED <<rcall, width, height, fixMode>>

(* Map.ZoomTo *)
ZoomTo ==
  /\ canvas' \in FixCanvas(fixMode, canvas)
  /\ UNCHANGED <<rcall, width, height, fixMode>>

NextRender ==
  \/ DoRender /\ UNCHANGED <<layerVars, freeVars>>
  \/ DoRenderImage /\ UNCHANGED <<layerVars, freeVars>>
  \/ DoRenderToFile /\ UNCHANGED <<layerVars, freeVars>>
  \/ DoEncode /\ UNCHANGED <<layerVars, freeVars>>
  \/ Resize /\ UNCHANGED <<layerVars, freeVars>>

(* The calls that shape the canvas, and RenderImage *)
NextCanvas ==
  \/ Resize /\ UNCHANGED <<layerVars, freeVars>>
  \/ SetAspectFixModeTo /\ UNCHANGED <<layerVars, freeVars>>
  \/ ZoomAllCanvas /\ UNCHANGED <<layerVars, freeVars>>
  \/ ZoomTo /\ UNCHANGED <<layerVars, freeVars>>
  \/ DoRenderImage /\ UNCHANGED <<layerVars, freeVars>>

(* ========================== specifications ============================= *)
Init == InitLayers /\ InitFree /\ InitRender

Spec       == Init /\ [][NextLayers]_vars
SpecFree   == Init /\ [][NextFree]_vars
SpecRender == Init /\ [][NextRender]_vars
SpecCanvas == Init /\ [][NextCanvas]_vars

(* ============================ properties =============================== *)
(* ResetLayers ran right after a SelectLayers call that began with no
   snapshot held *)
C1_Case == lastOp = "ResetLayers" /\ sess.fresh /\ len(sess.selStatus) = 0

(* C1 as claimed: SelectLayers followed by ResetLayers, begun with layerStatus
   nil, gives every layer the flag it had before SelectLayers and leaves
   layerStatus nil. *)
C1_Original ==
  (lastOp = "ResetLayers" /\ sess.fresh /\ sess.selStatus.isNil)
    => /\ Flags(layers) = sess.selFlags
       /\ layerStatus.isNil

(* C1 amended: SelectLayers followed by ResetLayers, begun with no snapshot
   held, gives every layer the flag it had before SelectLayers, so that
   currentLayerStatus() is the status of before, and leaves no snapshot held:
   layerStatus has length 0, and is nil when the map has a layer. *)
C1_RoundTrip ==
  C1_Case
    => /\ Flags(layers) = sess.selFlags
       /\ currentLayerStatus(layers).val = sess.selFlags
       /\ len(layerStatus) = 0
       /\ (Len(layers) > 0 => layerStatus.isNil)

(* The round trip undid a change on a map of two layers *)
C1_Witness ==
  /\ C1_Case
  /\ Len(layers) = 2
  /\ pre.flags # Flags(layers)
  /\ layerStatus.isNil

(* The decisions of SelectLayers: the selector saw every layer's name once, in
   index order, and each layer's flag follows its decision *)
C2_Decisions ==
  /\ Len(layers) = Len(pre.flags)
  /\ selected = [i \in 1..Len(layers) |-> layers[i].name]
  /\ Len(decided) = Len(layers)
  /\ \A i \in 1..Len(layers) :
       layers[i].active = IF decided[i] = Include THEN TRUE
                          ELSE IF decided[i] = Exclude THEN FALSE
                          ELSE pre.flags[i]

(* C2 as claimed: after SelectLayers the layers follow the decisions and the
   snapshot held is the layers' flags of before the call. *)
C2_Original ==
  lastOp = "SelectLayers" => C2_Decisions /\ layerStatus.val = pre.flags

(* C2 amended: after SelectLayers the selector has seen every layer's name once
   in index order, each layer is active on Include, inactive on Exclude and as
   before on Default; the snapshot is the layers' flags of before the call if
   none was held (length 0) before it, and else the snapshot held before. *)
C2_Effect ==
  lastOp = "SelectLayers"
    => /\ C2_Decisions
       /\ layerStatus = IF len(pre.layerStatus) = 0 THEN Slice(pre.flags)
                        ELSE pre.layerStatus

(* A selection over a held snapshot that turned a layer off and left another *)
C2_Witness ==
  /\ lastOp = "SelectLayers"
  /\ len(pre.layerStatus) > 0
  /\ layerStatus.val # pre.flags
  /\ \E i, j \in 1..Len(layers) :
       decided[i] = Exclude /\ pre.flags[i] /\ decided[j] = Default

(* C3: a second store request of a session (storeLayerStatus or SelectLayers,
   before the next ResetLayers) leaves the snapshot as the first one left it,
   also when the map had no layers then. *)
C3_FirstCaptureKept ==
  (lastOp \in {"storeLayerStatus", "SelectLayers"} /\ sess.stores = 2)
    => layerStatus = sess.first

(* C4: ResetLayers called with a snapshot held, after SelectLayers, AddLayer
   and Load calls, leaves layerStatus nil. *)
C4_ResetDiscards ==
  (lastOp = "ResetLayers" /\ len(pre.layerStatus) > 0 /\ ~sess.direct)
    => layerStatus.isNil

(* ResetLayers met a snapshot shorter than the layer count *)
C9_Grown ==
  /\ lastOp = "ResetLayers"
  /\ len(pre.layerStatus) > 0
  /\ Len(pre.flags) > len(pre.layerStatus)

(* C9: ResetLayers writes no flag when the layer count exceeds the length of
   the snapshot held, and otherwise writes only at indices below both. *)
C9_RestoreInBounds ==
  lastOp = "ResetLayers"
    => /\ C9_Grown => written = <<>> /\ Flags(layers) = pre.flags
       /\ \A k \in 1..Len(written) :
            /\ written[k][1] < len(pre.layerStatus)
            /\ written[k][1] < Len(pre.flags)

(* A refused restore that would have changed a flag *)
C9_Witness ==
  /\ C9_Grown
  /\ written = <<>>
  /\ \E i \in 1..len(pre.layerStatus) : pre.layerStatus.val[i] # layers[i].active

(* C10: ResetLayers after two or more SelectLayers calls (and no other store
   request) of a session over an unchanged layer count gives every layer the
   flag it had before the first of them. *)
C10_BaselineRestored ==
  (lastOp = "ResetLayers" /\ sess.selects = 2 /\ ~sess.moved /\ ~sess.direct)
    => Flags(layers) = sess.base

(* The handles other than nil that a wrapper's Free calls passed to the
   native free function *)
Releases(w) == {i \in 1..Len(released[w]) : released[w][i] # "nil"}

(* C5: once Free has run the wrapper's handle is nil, and however often it
   runs the native free function gets the wrapper's native object once (never
   when the wrapper never held one): later calls pass nil. *)
C5_FreeOnce ==
  \A w \in Wrappers :
    /\ released[w] # <<>> => handle[w] = "nil"
    /\ Cardinality(Releases(w)) =
         IF made[w] = "h" /\ released[w] # <<>> THEN 1 ELSE 0
    /\ Releases(w) \subseteq {1}

(* Free ran twice or more on a map that held a native object *)
C5_Witness ==
  /\ made["Map"] = "h"
  /\ Len(released["Map"]) >= 2
  /\ handle["Map"] = "nil"

(* What Render handed the engine, once the image was rendered *)
RenderHanded ==
  [scale |-> rcall.engine[1].scale,
   scaleFactor |-> rcall.engine[1].scaleFactor,
   format |-> rcall.engine[2].format]

(* What RenderToFile hands the engine for the same options *)
FileHanded ==
  LET f == RenderToFile(rcall.opts, TRUE).engine[1]
  IN  [scale |-> f.scale, scaleFactor |-> f.scaleFactor, format |-> f.format]

(* What RenderImage hands the engine for the same options *)
ImageHanded ==
  LET i == RenderImage(rcall.opts, TRUE, width, height, canvas).engine[1]
  IN  [scale |-> i.scale, scaleFactor |-> i.scaleFactor]

(* C6: for the same options, Render, RenderToFile and RenderImage hand the
   engine the same scale and scale factor, and Render and RenderToFile the
   same output format, "raw" and the empty format included. *)
C6_SameArguments ==
  (rcall.op = "Render" /\ Len(rcall.engine) = 2)
    => /\ RenderHanded = FileHanded
       /\ RenderHanded.scale = ImageHanded.scale
       /\ RenderHanded.scaleFactor = ImageHanded.scaleFactor

(* The native encode step of the last call answered no blob *)
NoBlob ==
  \E k \in 1..Len(rcall.engine) :
    rcall.engine[k].fn = "mapnik_image_to_blob" /\ ~rcall.engine[k].ok

(* The last call was asked for a format that the codec does not know and
   that the call hands to the codec *)
UnknownFormat ==
  \/ rcall.op = "Render" /\ rcall.opts.Format \notin Recognised \cup {"", "raw"}
  \/ rcall.op = "Encode" /\ rcall.layout \in {"NRGBA", "RGBA"}
       /\ ~rcall.ret.panic /\ rcall.opts.Format \notin Recognised

(* C7: Render and Encode return a nil byte slice and an error when the native
   encode step answers no blob, never return bytes with an error, and a format
   the codec does not know ends in an error and no bytes. *)
C7_NoBlobIsError ==
  rcall.op \in {"Render", "Encode"}
    => /\ NoBlob => rcall.ret.err /\ rcall.ret.bytes = "nil"
       /\ rcall.ret.err => rcall.ret.bytes = "nil"
       /\ UnknownFormat => rcall.ret.err /\ rcall.ret.bytes = "nil"

(* Render rendered the image and the codec refused "invalidformat" *)
C7_Witness ==
  /\ rcall.op = "Render"
  /\ rcall.opts.Format = "invalidformat"
  /\ NoBlob
  /\ rcall.ret.err

(* C8: an operation whose native call answered a non-zero status returns an
   error that carries a diagnostic. *)
C8_FailuresReported ==
  (fcall.failed /\ fcall.op \notin {"NewDatasource", "NewLayer", "New"})
    => fret.err /\ fret.diag # "none"

(* ResetLayers ran with no snapshot held *)
C11_Case == lastOp = "ResetLayers" /\ len(pre.layerStatus) = 0

(* C11: ResetLayers with no snapshot held writes no layer's flag and leaves
   the layers and layerStatus as they were, with no snapshot held; and a
   ResetLayers call right after any ResetLayers call writes nothing and leaves
   the layers and layerStatus as the first call left them. *)
C11_ResetNoOp ==
  lastOp = "ResetLayers"
    => /\ C11_Case => /\ written = <<>>
                      /\ Flags(layers) = pre.flags
                      /\ layerStatus = pre.layerStatus
                      /\ len(layerStatus) = 0
       /\ resetLayerStatus(layerStatus, layers) =
            [layers |-> layers, layerStatus |-> layerStatus, written |-> <<>>]

(* ResetLayers ran with no snapshot held, before any store request, on a map
   of two layers with one of them inactive *)
C11_Witness ==
  /\ C11_Case
  /\ sess.stores = 0
  /\ Len(layers) = 2
  /\ layers[1].active # layers[2].active

(* The last call was a render call that reached the engine *)
C12_Case ==
  rcall.op \in {"Render", "RenderImage", "RenderToFile"} /\ Len(rcall.engine) > 0

(* The first native call of the last render call got a scale factor of 1 for
   a ScaleFactor of 0 and the ScaleFactor given otherwise, and the Scale
   given *)
C12_Normalised ==
  C12_Case
    => /\ rcall.engine[1].scaleFactor =
            IF rcall.opts.ScaleFactor = 0 THEN 1 ELSE rcall.opts.ScaleFactor
       /\ rcall.engine[1].scale = rcall.opts.Scale

(* C12: Render, RenderImage and RenderToFile hand the engine a scale factor of
   1.0 for a ScaleFactor of 0 and the ScaleFactor given otherwise, and the
   Scale given; and a render or encode call leaves Map.width, Map.height,
   Map.layerStatus and the map's handle as they were. *)
C12_RenderOptions ==
  /\ []C12_Normalised
  /\ [][rcall' # rcall => UNCHANGED <<width, height, layerStatus, handle>>]_vars

(* RenderToFile with ScaleFactor 0 and Scale 5 on a resized map handed the
   engine 1 and 5 *)
C12_Witness ==
  /\ rcall.op = "RenderToFile"
  /\ rcall.opts.ScaleFactor = 0
  /\ rcall.opts.Scale = 5
  /\ rcall.engine[1].scaleFactor = 1
  /\ rcall.engine[1].scale = 5
  /\ width = 2

(* C13: the image RenderImage returns has Rect.Max = (width, height) and
   Stride = width*4 for the width and height of the canvas the engine
   rendered, and len(Pix) = Stride*height, also under the aspect fix modes
   that change the canvas. *)
C13_ImageGeometry ==
  (rcall.op = "RenderImage" /\ ~rcall.ret.err)
    => /\ rcall.ret.rect = rcall.ret.image
       /\ rcall.ret.stride = rcall.ret.image[1] * 4
       /\ rcall.ret.pixLen = rcall.ret.stride * rcall.ret.rect[2]

(* One channel of a pixel without its premultiplication by alpha a, as the
   conversion to the non-premultiplied colour model computes it on 16-bit
   values: ((c*257) * 65535 / (a*257)) >> 8, with the common factor 257
   cancelled *)
Unmultiplied(c, a) ==
  IF a = 0 THEN 0
  ELSE IF a = 255 THEN c
  ELSE ((c * 65535) \div a) \div 256

(* The non-premultiplied bytes of the colours of an image of the given layout *)
NonPremultiplied(layout, pix) ==
  IF layout = "RGBA"
    THEN <<Unmultiplied(pix[1], pix[4]), Unmultiplied(pix[2], pix[4]),
           Unmultiplied(pix[3], pix[4]), pix[4]>>
  ELSE pix

(* C14: Encode hands the native encoder the pixels of an NRGBA image as they
   are and those of an RGBA image without their premultiplication, calls the
   native encoder for a non-empty image of either layout, and for any other
   layout returns an error without a native call. *)
C14_EncodeLayouts ==
  rcall.op = "Encode"
    => /\ rcall.layout \notin {"NRGBA", "RGBA"}
            => rcall.ret.err /\ rcall.engine = <<>>
       /\ (rcall.layout \in {"NRGBA", "RGBA"} /\ rcall.pix # <<>>)
            => /\ rcall.engine # <<>>
               /\ rcall.engine[1].fn = "mapnik_image_from_raw"
               /\ rcall.engine[1].raw = NonPremultiplied(rcall.layout, rcall.pix)

(* C15: when Render, RenderToFile, RenderImage or Encode returns, on the error
   paths as on the others, no C string, native image or blob that the call
   allocated is left unfreed. *)
C15_NothingOutlivesCall ==
  rcall.op \in {"Render", "RenderToFile", "RenderImage", "Encode"}
    => rcall.unfreed = {}

====
